---- MODULE Spec2Model ----
(***************************************************************************)
(* LTLf2DFA: the formula model (base.py, ltlf.py), its transformations     *)
(* to_nnf / negate, the MONA encoders to_mona / to_mona_s, the clausifier  *)
(* gen_tlp and the program builders of base.py.                            *)
(*                                                                         *)
(* A formula is a record [op, name, args]: op is the class, name the       *)
(* symbol of an atomic proposition, args the children.  Python values      *)
(* that are not formulas but that the code passes around as if they were   *)
(* are values of the same shape: op "None" (a method whose body is only a  *)
(* docstring returns None), op "PyList" (a list handed to LTLfNot), and    *)
(* op "Error" (a raised exception, name = its type), which every           *)
(* constructor and every operation propagates.                             *)
(***************************************************************************)
EXTENDS Integers, Sequences, FiniteSets, TLC

\* ------------------------------------------------------------------ bounds
\* Longest trace the encodings are evaluated on.
MaxLen == 2
\* Most places one subformula is put at under one parent.
MaxCopies == 3
\* Longest proposition name a constructor is given.
MaxName == 3
\* Most operands an n-ary constructor is given.
MaxArity == 3

\* ------------------------------------------------------------- formula model
Mk(o, n, cs) == [op |-> o, name |-> n, args |-> cs]

PyNone == Mk("None", "", <<>>)
PyError(e) == Mk("Error", e, <<>>)
IsErr(x) == x.op = "Error"
IsNone(x) == x.op = "None"
IsList(x) == x.op = "PyList"
\* A Python object that has the methods of a formula.
IsFormula(x) == ~IsErr(x) /\ ~IsNone(x) /\ ~IsList(x)

\* The first exception raised while the elements of xs were computed.
FirstErr(xs) == xs[CHOOSE i \in 1..Len(xs) : IsErr(xs[i]) /\ \A j \in 1..(i-1) : ~IsErr(xs[j])]
AnyErr(xs) == \E i \in 1..Len(xs) : IsErr(xs[i])

LTLfAtomic(s) == Mk("Atomic", s, <<>>)
LTLfTrue == Mk("True", "", <<>>)
LTLfFalse == Mk("False", "", <<>>)
LTLfLast == Mk("Last", "", <<>>)
LTLfEnd == Mk("End", "", <<>>)
LTLfInit == Mk("Init", "", <<>>)

\* A name is a sequence of characters, one of each kind a pattern tells apart.
NameChars == {"a", "A", "1", "_", "\"", " "}
\* LTLfAtomic.name_regex, [a-z][a-z0-9_]*, matched against the whole name.
name_regex(n) ==
    /\ Len(n) >= 1 /\ n[1] = "a"
    /\ \A i \in 2..Len(n) : n[i] \in {"a", "1", "_"}
\* AtomicFormula.__init__ on a name, through LTLfAtomic: ValueError unless
\* the name matches name_regex.
AtomicFormula(n) == IF name_regex(n) THEN Mk("Atomic", n, <<>>) ELSE PyError("ValueError")

\* UnaryOperator.__init__ stores whatever it is given.
UnaryOperator(o, x) == IF IsErr(x) THEN x ELSE Mk(o, "", <<x>>)

\* BinaryOperator.__init__ asserts len(formulas) >= 2.
BinaryOperator(o, xs) ==
    IF AnyErr(xs) THEN FirstErr(xs)
    ELSE IF Len(xs) < 2 THEN PyError("AssertionError")
    ELSE Mk(o, "", xs)

\* A list comprehension [.. for f in self.formulas] handed on as it is.
PyList(xs) == IF AnyErr(xs) THEN FirstErr(xs) ELSE Mk("PyList", "", xs)

\* isinstance(x, AtomicFormula): LTLfAtomic and its subclasses LTLfTrue, LTLfFalse.
IsAtomicFormula(x) == x.op \in {"Atomic", "True", "False"}

UnaryOps == {"Not", "Next", "WeakNext", "Eventually", "Always",
             "Before", "WBefore", "Once", "Historically"}
BinaryOps == {"And", "Or", "Implies", "Equivalence", "Until", "Release",
              "Since", "Trigger"}

\* ------------------------------------------------- members / __str__ / ==
\* The symbol a node's _members starts with: the name of a proposition, the
\* operator symbol of an operator, Symbols.LAST.value for LTLfLast and for
\* LTLfInit alike.
Tag(g) ==
    CASE g.op \in {"Last", "Init"} -> "LAST"
      [] g.op = "End" -> "END"
      [] g.op = "Atomic" -> g.name
      [] g.op = "True" -> "true"
      [] g.op = "False" -> "false"
      [] OTHER -> g.op

\* _members(): the symbol, and the children as the members they compare by.
RECURSIVE members(_)
members(g) == <<Tag(g), [i \in 1..Len(g.args) |-> members(g.args[i])]>>

\* __str__(), as the tokens it prints: the symbol of a leaf, the operator
\* symbol before the bracketed child, the children joined by the operator.
RECURSIVE str(_), Joined(_, _, _)
Joined(g, i, sep) ==
    IF i > Len(g.args) THEN <<>>
    ELSE (IF i > 1 THEN <<sep>> ELSE <<>>) \o str(g.args[i]) \o Joined(g, i + 1, sep)
str(g) ==
    CASE g.args = <<>> -> <<Tag(g)>>
      [] Len(g.args) = 1 -> <<Tag(g), "(">> \o str(g.args[1]) \o <<")">>
      [] OTHER -> <<"(">> \o Joined(g, 1, Tag(g)) \o <<")">>

\* Hashable.__eq__: equal member tuples, children compared the same way;
\* typed says whether it compares the classes of the two objects as well.
RECURSIVE Equal(_, _, _)
Equal(x, y, typed) ==
    /\ typed => x.op = y.op
    /\ Tag(x) = Tag(y) /\ Len(x.args) = Len(y.args)
    /\ \A i \in 1..Len(x.args) : Equal(x.args[i], y.args[i], typed)

\* ------------------------------------------------------------ to_nnf / negate
RECURSIVE to_nnf(_), negate(_)

\* BinaryOperator.to_nnf and the to_nnf of Until, Release, Since, Trigger:
\* the same class over the normalised children.
NnfChildren(f) == [i \in 1..Len(f.args) |-> to_nnf(f.args[i])]

\* LTLfImplies.to_nnf: Or(Not(first).to_nnf(), second.to_nnf()), folded to the
\* left over the remaining children.
RECURSIVE ImpliesNnf(_, _)
ImpliesNnf(fs, k) ==
    IF k = 2
    THEN BinaryOperator("Or", <<to_nnf(UnaryOperator("Not", fs[1])), to_nnf(fs[2])>>)
    ELSE LET final_formula == ImpliesNnf(fs, k - 1)
         IN  IF IsErr(final_formula) THEN final_formula
             ELSE BinaryOperator("Or",
                    <<to_nnf(UnaryOperator("Not", final_formula)), to_nnf(fs[k])>>)

\* LTLfEventually.to_nnf: the child is used as it is.
EventuallyNnf(f) == BinaryOperator("Until", <<LTLfTrue, f.args[1]>>)

to_nnf(f) ==
    CASE IsErr(f) -> f
      [] f.op \in {"None", "PyList"} -> PyError("AttributeError")
      [] f.op \in {"Atomic", "True", "False"} -> f
      [] f.op = "Not" ->
            IF ~IsAtomicFormula(f.args[1]) THEN to_nnf(negate(f.args[1])) ELSE f
      [] f.op \in {"And", "Or", "Until", "Release", "Since", "Trigger"} ->
            BinaryOperator(f.op, NnfChildren(f))
      [] f.op = "Implies" -> ImpliesNnf(f.args, Len(f.args))
      [] f.op = "Equivalence" ->
            to_nnf(BinaryOperator("Or",
                <<BinaryOperator("And", f.args),
                  BinaryOperator("And",
                      [i \in 1..Len(f.args) |-> UnaryOperator("Not", f.args[i])])>>))
      [] f.op \in {"Next", "WeakNext", "Before"} ->
            UnaryOperator(f.op, to_nnf(f.args[1]))
      [] f.op = "Eventually" -> EventuallyNnf(f)
      [] f.op = "Always" ->
            BinaryOperator("Release", <<LTLfFalse, to_nnf(f.args[1])>>)
      [] f.op = "Last" ->
            to_nnf(BinaryOperator("And",
                <<UnaryOperator("WeakNext", LTLfFalse), UnaryOperator("Not", LTLfEnd)>>))
      [] f.op = "End" -> to_nnf(UnaryOperator("Always", LTLfFalse))
      [] f.op = "WBefore" -> PyNone
      [] f.op = "Once" -> BinaryOperator("Since", <<LTLfTrue, f.args[1]>>)
      [] f.op \in {"Historically", "Init"} -> f

\* The children negated, in order.
NegChildren(f) == [i \in 1..Len(f.args) |-> negate(f.args[i])]

\* LTLfBefore.negate / LTLfWBefore.negate: Not over the negated child.
BeforeNegate(f) == UnaryOperator("Not", negate(f.args[1]))

negate(f) ==
    CASE IsErr(f) -> f
      [] f.op \in {"None", "PyList"} -> PyError("AttributeError")
      [] f.op = "Atomic" -> UnaryOperator("Not", f)
      [] f.op = "True" -> LTLfFalse
      [] f.op = "False" -> LTLfTrue
      [] f.op = "Not" -> f.args[1]
      [] f.op = "And" -> BinaryOperator("Or", NegChildren(f))
      [] f.op = "Or" -> BinaryOperator("And", NegChildren(f))
      [] f.op \in {"Implies", "Equivalence", "Eventually", "Always", "Last", "End", "Once"} ->
            negate(to_nnf(f))
      \* to_nnf returns self, so negate calls itself without end.
      [] f.op \in {"Historically", "Init"} -> PyError("RecursionError")
      [] f.op = "Next" -> UnaryOperator("WeakNext", negate(f.args[1]))
      [] f.op = "WeakNext" -> UnaryOperator("Next", negate(f.args[1]))
      [] f.op = "Until" -> BinaryOperator("Release", NegChildren(f))
      [] f.op = "Release" -> BinaryOperator("Until", NegChildren(f))
      [] f.op \in {"Before", "WBefore"} -> BeforeNegate(f)
      [] f.op \in {"Since", "Trigger"} -> UnaryOperator("Not", PyList(NegChildren(f)))

\* ------------------------------------------------------------- MONA terms
\* The text an encoder returns, kept as the term MONA parses it to.  A position
\* expression is [b, n, d]: the literal n (b = "lit"), the first-order variable
\* v_n (b = "var") or max($) (b = "max"), plus the offset d.
Lit(n) == [b |-> "lit", n |-> n, d |-> 0]
Var(n) == [b |-> "var", n |-> n, d |-> 0]
MaxPos == [b |-> "max", n |-> 0, d |-> 0]
Plus(p, i) == [p EXCEPT !.d = p.d + i]
\* The position argument v as it is printed: "0" or the name of a variable.
Pos(v) == IF v = 0 THEN Lit(0) ELSE Var(v)

\* helpers.new_var: the name after v ("0" -> v_1, v_n -> v_n+1).
new_var(v) == v + 1

\* A term: its kind k, a second-order variable s (and u, for "s sub u"), the
\* second-order variables vs an ex2 binds, the first-order variable x a
\* quantifier binds, two position expressions l and r, and the subterms c.
T(k, s, x, l, r, c) ==
    [k |-> k, s |-> s, u |-> "", vs |-> {}, x |-> x, l |-> l, r |-> r, c |-> c]
TIsErr(t) == t.k = "err"
TErr(e) == T("err", e, 0, Lit(0), Lit(0), <<>>)
\* str.format of the parts: an exception raised while a part was computed
\* leaves no text.
TAnyErr(c) == \E i \in 1..Len(c) : TIsErr(c[i])
TFirstErr(c) == c[CHOOSE i \in 1..Len(c) : TIsErr(c[i]) /\ \A j \in 1..(i-1) : ~TIsErr(c[j])]
Tm(k, s, x, l, r, c) == IF TAnyErr(c) THEN TFirstErr(c) ELSE T(k, s, x, l, r, c)

\* None, printed "None" when a template formats it.
TNone == T("none", "", 0, Lit(0), Lit(0), <<>>)
TTrue == T("true", "", 0, Lit(0), Lit(0), <<>>)
TFalse == T("false", "", 0, Lit(0), Lit(0), <<>>)
TIn(p, S) == T("in", S, 0, p, Lit(0), <<>>)
TEq(p, q) == T("eq", "", 0, p, q, <<>>)
TLe(p, q) == T("le", "", 0, p, q, <<>>)
TLt(p, q) == T("lt", "", 0, p, q, <<>>)
TNot(t) == Tm("not", "", 0, Lit(0), Lit(0), <<t>>)
TAnd(c) == Tm("and", "", 0, Lit(0), Lit(0), c)
TOr(c) == Tm("or", "", 0, Lit(0), Lit(0), c)
TImp(a, b) == Tm("imp", "", 0, Lit(0), Lit(0), <<a, b>>)
TIff(a, b) == Tm("iff", "", 0, Lit(0), Lit(0), <<a, b>>)
\* "X &  Y" with no brackets around it: what the text means depends on where a
\* template puts it.
TBareAnd(a, b) == Tm("bare_and", "", 0, Lit(0), Lit(0), <<a, b>>)
TEx1(x, t) == Tm("ex1", "", x, Lit(0), Lit(0), <<t>>)
TAll1(x, t) == Tm("all1", "", x, Lit(0), Lit(0), <<t>>)

\* "P_p sub P"
TSub(S1, S2) == [T("sub", S1, 0, Lit(0), Lit(0), <<>>) EXCEPT !.u = S2]
\* "P_p ~= P"
TNeq(S1, S2) == [T("neq", S1, 0, Lit(0), Lit(0), <<>>) EXCEPT !.u = S2]
\* "ex2 V,..: body"
TEx2(Vs, t) ==
    IF TIsErr(t) THEN t ELSE [T("ex2", "", 0, Lit(0), Lit(0), <<t>>) EXCEPT !.vs = Vs]
\* The text of an empty join: nothing where the grammar wants a formula.
TEmpty == T("empty", "", 0, Lit(0), Lit(0), <<>>)
\* "({})": brackets make any text one unit.
TParen(t) == IF t.k = "bare_and" THEN TAnd(t.c) ELSE t

\* "~{}" in front of a text: ~ binds tighter than &, so in front of an
\* unbracketed conjunction it negates the first conjunct only.
TNotPrefix(t) ==
    IF t.k = "bare_and" THEN TBareAnd(TNot(t.c[1]), t.c[2]) ELSE TNot(t)

\* " & ".join flattened: a bare conjunction among the parts of a conjunction.
RECURSIVE Flat(_)
Flat(c) ==
    IF c = <<>> THEN <<>>
    ELSE IF Head(c).k = "bare_and" THEN Flat(Head(c).c) \o Flat(Tail(c))
    ELSE <<Head(c)>> \o Flat(Tail(c))
TConj(c) == IF TAnyErr(c) THEN TFirstErr(c) ELSE TAnd(Flat(c))

\* str.upper of a proposition name.
UpperTable ==
    [a |-> "A", b |-> "B", c |-> "C", v0 |-> "V0", v1 |-> "V1", v2 |-> "V2", v3 |-> "V3",
     v4 |-> "V4", v5 |-> "V5", v6 |-> "V6", v7 |-> "V7", v8 |-> "V8", v9 |-> "V9"]
Upper(s) == UpperTable[s]
\* "{}_p".format(NAME)
Primed(S) == S \o "_p"

\* ------------------------------------------------------- to_mona / to_mona_s
RECURSIVE to_mona(_, _), to_mona_s(_, _)

NextTextMutant(v, x, body) == TEx1(x, TConj(<<TEq(Var(x), Plus(Var(x), 1)), body>>))

\* "(ex1 x: x=v+1 & ..)", and "(ex1 x: x=1 & ..)" at the initial position.
NextText(v, x, body) ==
    TEx1(x, TConj(<<TEq(Var(x), IF v # 0 THEN Plus(Var(v), 1) ELSE Lit(1)), body>>))

\* "((v = max($)) | (ex1 x: ..))"
WeakNextText(v, x, body) == TOr(<<TEq(Pos(v), MaxPos), NextText(v, x, body)>>)

\* "(ex1 e: v<=e&e<=max($) & f2 & (all1 a: v<=a&a<e => f1))"
UntilText(v, e, a, f1, f2) ==
    TEx1(e, TConj(<<TLe(Pos(v), Var(e)), TLe(Var(e), MaxPos), f2,
                    TAll1(a, TImp(TAnd(<<TLe(Pos(v), Var(a)), TLt(Var(a), Var(e))>>), f1))>>))

\* "(all1 a: (v<=a&a<=max($)) => ((f2) | (ex1 e: v <= e & e < a & f1)))"
ReleaseText(v, a, e, f1, f2) ==
    TAll1(a, TImp(TAnd(<<TLe(Pos(v), Var(a)), TLe(Var(a), MaxPos)>>),
                  TOr(<<f2, TEx1(e, TConj(<<TLe(Pos(v), Var(e)), TLt(Var(e), Var(a)), f1>>))>>)))

\* "(ex1 e: v<=e&e<=max($) & f)"
EventuallyText(v, e, body) ==
    TEx1(e, TConj(<<TLe(Pos(v), Var(e)), TLe(Var(e), MaxPos), body>>))

\* "(all1 a: v<=a&a<=max($) => f)"
AlwaysText(v, a, body) ==
    TAll1(a, TImp(TAnd(<<TLe(Pos(v), Var(a)), TLe(Var(a), MaxPos)>>), body))

\* "(ex1 x: x=v-1 & x>=0 & f)": the guard is on the new variable, not on v.
BeforeText(v, x, body) ==
    TEx1(x, TConj(<<TEq(Var(x), Plus(Var(v), -1)), TLe(Lit(0), Var(x)), body>>))

\* "((v = 0) | (ex1 x: x=v-1 & x>=0 & f))"
WBeforeText(v, x, body) == TOr(<<TEq(Var(v), Lit(0)), BeforeText(v, x, body)>>)

\* "(ex1 e: 0<=e&e<=v & f2 & (all1 a: (e<a&a<=v) => f1))"
SinceText(v, e, a, f1, f2) ==
    TEx1(e, TConj(<<TLe(Lit(0), Var(e)), TLe(Var(e), Var(v)), f2,
                    TAll1(a, TImp(TAnd(<<TLt(Var(e), Var(a)), TLe(Var(a), Var(v))>>), f1))>>))

\* "(all1 e: 0<=e&e<=v => (f2 | (ex1 a: (e<a&a<=v) &  f1)))"
TriggerText(v, e, a, f1, f2) ==
    TAll1(e, TImp(TAnd(<<TLe(Lit(0), Var(e)), TLe(Var(e), Var(v))>>),
                  TOr(<<f2, TEx1(a, TConj(<<TAnd(<<TLt(Var(e), Var(a)), TLe(Var(a), Var(v))>>), f1>>))>>)))

\* "(ex1 x: 0<=x&x<=v & f)"
OnceText(v, x, body) ==
    TEx1(x, TConj(<<TLe(Lit(0), Var(x)), TLe(Var(x), Var(v)), body>>))

\* LTLfHistorically.to_mona: at the initial position the primed encoding of
\* the child; elsewhere the template names ex_var, which nothing defines.
HistoricallyMona(f, v) ==
    IF v # 0 THEN TErr("NameError") ELSE to_mona_s(f.args[1], v)

MonaChildren(f, v) == [i \in 1..Len(f.args) |-> to_mona(f.args[i], v)]
MonaSChildren(f, v) == [i \in 1..Len(f.args) |-> to_mona_s(f.args[i], v)]

to_mona(f, v) ==
    CASE IsErr(f) -> TErr(f.name)
      [] f.op \in {"None", "PyList"} -> TErr("AttributeError")
      [] f.op = "Atomic" -> TIn(Pos(v), Upper(f.name))
      [] f.op = "True" -> TTrue
      [] f.op = "False" -> TFalse
      [] f.op = "Not" -> TNot(to_mona(f.args[1], v))
      [] f.op = "And" -> TConj(MonaChildren(f, v))
      [] f.op = "Or" -> TOr(MonaChildren(f, v))
      [] f.op = "Implies" -> TImp(to_mona(f.args[1], v), to_mona(f.args[2], v))
      [] f.op = "Equivalence" -> TIff(to_mona(f.args[1], v), to_mona(f.args[2], v))
      [] f.op = "Next" ->
            NextText(v, new_var(v), to_mona(f.args[1], new_var(v)))
      [] f.op = "WeakNext" ->
            WeakNextText(v, new_var(v), to_mona(f.args[1], new_var(v)))
      [] f.op = "Until" ->
            LET ex_var == new_var(v)
                all_var == new_var(ex_var)
            IN  UntilText(v, ex_var, all_var,
                          to_mona(f.args[1], all_var), to_mona(f.args[2], ex_var))
      [] f.op = "Release" ->
            LET all_var == new_var(v)
                ex_var == new_var(all_var)
            IN  ReleaseText(v, all_var, ex_var,
                            to_mona(f.args[1], ex_var), to_mona(f.args[2], all_var))
      [] f.op = "Eventually" ->
            EventuallyText(v, new_var(v), to_mona(f.args[1], new_var(v)))
      [] f.op = "Always" ->
            AlwaysText(v, new_var(v), to_mona(f.args[1], new_var(v)))
      [] f.op = "Last" -> TEq(Pos(v), MaxPos)
      \* LTLfEnd defines no to_mona: LTLfFormula.to_mona returns None.
      [] f.op = "End" -> TNone
      [] f.op = "Init" -> TEq(Pos(v), Lit(0))
      [] f.op = "Before" ->
            IF v = 0 THEN TFalse
            ELSE BeforeText(v, new_var(v), to_mona(f.args[1], new_var(v)))
      [] f.op = "WBefore" ->
            IF v = 0 THEN TTrue
            ELSE WBeforeText(v, new_var(v), to_mona(f.args[1], new_var(v)))
      [] f.op = "Since" ->
            IF v # 0
            THEN LET ex_var == new_var(v)
                     all_var == new_var(ex_var)
                 IN  SinceText(v, ex_var, all_var,
                               to_mona(f.args[1], all_var), to_mona(f.args[2], ex_var))
            ELSE to_mona(f.args[2], v)
      [] f.op = "Trigger" ->
            IF v # 0
            THEN LET all_var == new_var(v)
                     ex_var == new_var(all_var)
                 IN  TriggerText(v, ex_var, all_var,
                                 to_mona(f.args[1], all_var), to_mona(f.args[2], ex_var))
            ELSE to_mona(f.args[2], v)
      [] f.op = "Once" ->
            IF v # 0 THEN OnceText(v, new_var(v), to_mona(f.args[1], new_var(v)))
            ELSE to_mona(f.args[1], 0)
      [] f.op = "Historically" -> HistoricallyMona(f, v)

NotMonaSMutant(f, v) == TNotPrefix(to_mona_s(f.args[1], v))

\* LTLfNot.to_mona_s: "(~{} & ~{})" of the primed and the direct encoding.
NotMonaS(f, v) ==
    TConj(<<TNotPrefix(to_mona_s(f.args[1], v)), TNotPrefix(to_mona(f.args[1], v))>>)

\* LTLfImplies.to_mona_s: "(({} => {}) & ({} => {}))", direct then primed.
ImpliesMonaS(f, v) ==
    TAnd(<<TImp(to_mona(f.args[1], v), to_mona(f.args[2], v)),
           TImp(to_mona_s(f.args[1], v), to_mona_s(f.args[2], v))>>)

\* LTLfEquivalence.to_mona_s: "({} <=> {}) &  ({} <=> {})", no outer brackets.
EquivalenceMonaS(f, v) ==
    TBareAnd(TIff(to_mona(f.args[1], v), to_mona(f.args[2], v)),
             TIff(to_mona_s(f.args[1], v), to_mona_s(f.args[2], v)))

to_mona_s(f, v) ==
    CASE IsErr(f) -> TErr(f.name)
      [] f.op \in {"None", "PyList"} -> TErr("AttributeError")
      [] f.op = "Atomic" -> TIn(Pos(v), Primed(Upper(f.name)))
      [] f.op = "True" -> TTrue
      [] f.op = "False" -> TFalse
      [] f.op = "Not" -> NotMonaS(f, v)
      [] f.op = "And" -> TConj(MonaSChildren(f, v))
      [] f.op = "Or" -> TOr(MonaSChildren(f, v))
      [] f.op = "Implies" -> ImpliesMonaS(f, v)
      [] f.op = "Equivalence" -> EquivalenceMonaS(f, v)
      [] f.op = "Next" ->
            NextText(v, new_var(v), to_mona_s(f.args[1], new_var(v)))
      [] f.op = "WeakNext" ->
            WeakNextText(v, new_var(v), to_mona_s(f.args[1], new_var(v)))
      [] f.op = "Until" ->
            LET ex_var == new_var(v)
                all_var == new_var(ex_var)
            IN  UntilText(v, ex_var, all_var,
                          to_mona_s(f.args[1], all_var), to_mona_s(f.args[2], ex_var))
      [] f.op = "Release" ->
            LET all_var == new_var(v)
                ex_var == new_var(all_var)
            IN  ReleaseText(v, all_var, ex_var,
                            to_mona_s(f.args[1], ex_var), to_mona_s(f.args[2], all_var))
      [] f.op = "Eventually" ->
            EventuallyText(v, new_var(v), to_mona_s(f.args[1], new_var(v)))
      [] f.op = "Always" ->
            AlwaysText(v, new_var(v), to_mona_s(f.args[1], new_var(v)))
      [] f.op = "Last" -> TEq(Pos(v), MaxPos)
      \* LTLfEnd and LTLfHistorically define no to_mona_s: None.
      [] f.op \in {"End", "Historically"} -> TNone
      [] f.op = "Init" -> TEq(Pos(v), Lit(0))
      [] f.op = "Before" ->
            IF v = 0 THEN TFalse
            ELSE BeforeText(v, new_var(v), to_mona_s(f.args[1], new_var(v)))
      [] f.op = "WBefore" ->
            IF v = 0 THEN TTrue
            ELSE WBeforeText(v, new_var(v), to_mona_s(f.args[1], new_var(v)))
      [] f.op = "Since" ->
            IF v # 0
            THEN LET ex_var == new_var(v)
                     all_var == new_var(ex_var)
                 IN  SinceText(v, ex_var, all_var,
                               to_mona_s(f.args[1], all_var), to_mona_s(f.args[2], ex_var))
            ELSE to_mona_s(f.args[2], v)
      [] f.op = "Trigger" ->
            IF v # 0
            THEN LET ex_var == new_var(v)
                     all_var == new_var(ex_var)
                 IN  TriggerText(v, ex_var, all_var,
                                 to_mona_s(f.args[1], all_var), to_mona_s(f.args[2], ex_var))
            ELSE to_mona_s(f.args[2], v)
      [] f.op = "Once" ->
            IF v # 0 THEN OnceText(v, new_var(v), to_mona_s(f.args[1], new_var(v)))
            ELSE to_mona_s(f.args[1], v)

\* ------------------------------------------------- the solver's reading
\* A string model of M2L-Str: positions 0..n-1 and, for each declared
\* second-order variable, the set of positions it holds.  max($) is n-1.
\* env gives the bound first-order variables their positions.  What v-1
\* denotes at position 0 is the solver's choice: position 0 again (w.sat), or
\* no position at all, which makes the atom it stands in false.
PosVal(p, env, w) ==
    LET base == CASE p.b = "lit" -> p.n
                  [] p.b = "var" -> env[p.n]
                  [] p.b = "max" -> w.n - 1
    IN  IF base + p.d < 0 /\ w.sat THEN 0 ELSE base + p.d

\* A text with "None" in it names an identifier the program never declares.
RECURSIVE WellFormed(_)
WellFormed(t) ==
    /\ t.k \notin {"none", "err", "empty"}
    /\ (t.k = "ex2" => t.vs # {})
    /\ \A i \in 1..Len(t.c) : WellFormed(t.c[i])

RECURSIVE Holds(_, _, _)
Holds(t, env, w) ==
    CASE t.k = "true" -> TRUE
      [] t.k = "false" -> FALSE
      [] t.k = "in" -> PosVal(t.l, env, w) \in w.val[t.s]
      [] t.k = "eq" -> PosVal(t.l, env, w) = PosVal(t.r, env, w)
      [] t.k = "le" -> PosVal(t.l, env, w) <= PosVal(t.r, env, w)
      [] t.k = "lt" -> PosVal(t.l, env, w) < PosVal(t.r, env, w)
      [] t.k = "not" -> ~Holds(t.c[1], env, w)
      [] t.k \in {"and", "bare_and"} -> \A i \in 1..Len(t.c) : Holds(t.c[i], env, w)
      [] t.k = "or" -> \E i \in 1..Len(t.c) : Holds(t.c[i], env, w)
      [] t.k = "imp" -> Holds(t.c[1], env, w) => Holds(t.c[2], env, w)
      [] t.k = "iff" -> Holds(t.c[1], env, w) <=> Holds(t.c[2], env, w)
      [] t.k = "sub" -> w.val[t.s] \subseteq w.val[t.u]
      [] t.k = "neq" -> w.val[t.s] # w.val[t.u]
      [] t.k = "ex2" ->
            \E asg \in [t.vs -> SUBSET (0..(w.n - 1))] :
                Holds(t.c[1], env, [w EXCEPT !.val = asg @@ w.val])
      [] t.k = "ex1" -> \E i \in 0..(w.n - 1) : Holds(t.c[1], (t.x :> i) @@ env, w)
      [] t.k = "all1" -> \A i \in 0..(w.n - 1) : Holds(t.c[1], (t.x :> i) @@ env, w)

NoEnv == (0 :> 0)

\* ------------------------------------------------- finite-trace semantics
\* The textbook reading of each operator at position i of a trace of length
\* n, over the valuation w.val of the upper-cased proposition names.
RECURSIVE Sat(_, _, _)
Sat(g, i, w) ==
    LET last == w.n - 1
        x == g.args[1]
        y == g.args[2]
    IN
    CASE g.op \in {"Atomic", "PLAtomic"} -> i \in w.val[Upper(g.name)]
      [] g.op = "True" -> TRUE
      [] g.op = "False" -> FALSE
      [] g.op = "Last" -> i = last
      [] g.op = "End" -> FALSE
      [] g.op = "Init" -> i = 0
      [] g.op = "Not" -> ~Sat(x, i, w)
      [] g.op = "And" -> \A k \in 1..Len(g.args) : Sat(g.args[k], i, w)
      [] g.op = "Or" -> \E k \in 1..Len(g.args) : Sat(g.args[k], i, w)
      [] g.op = "Implies" -> Sat(x, i, w) => Sat(y, i, w)
      [] g.op = "Equivalence" -> Sat(x, i, w) <=> Sat(y, i, w)
      [] g.op = "Next" -> i < last /\ Sat(x, i + 1, w)
      [] g.op = "WeakNext" -> i = last \/ Sat(x, i + 1, w)
      [] g.op = "Until" ->
            \E e \in i..last : Sat(y, e, w) /\ \A a \in i..(e - 1) : Sat(x, a, w)
      [] g.op = "Release" ->
            \A a \in i..last : Sat(y, a, w) \/ \E e \in i..(a - 1) : Sat(x, e, w)
      [] g.op = "Eventually" -> \E e \in i..last : Sat(x, e, w)
      [] g.op = "Always" -> \A a \in i..last : Sat(x, a, w)
      [] g.op = "Before" -> i > 0 /\ Sat(x, i - 1, w)
      [] g.op = "WBefore" -> i = 0 \/ Sat(x, i - 1, w)
      [] g.op = "Since" ->
            \E e \in 0..i : Sat(y, e, w) /\ \A a \in (e + 1)..i : Sat(x, a, w)
      [] g.op = "Trigger" ->
            \A a \in 0..i : Sat(y, a, w) \/ \E e \in (a + 1)..i : Sat(x, e, w)
      [] g.op = "Once" -> \E e \in 0..i : Sat(x, e, w)
      [] g.op = "Historically" -> \A a \in 0..i : Sat(x, a, w)

\* ------------------------------------------------------------ gen_tlp
\* pl.PLAtomic(name): the propositional atom the clausifier names a node by.
PLAtomic(n) == Mk("PLAtomic", n, <<>>)

\* exv is the dict of one gen_tlp call, in insertion order: a sequence of
\* [key, var].  df is the set of constraints.
DictHas(exv, g) == \E i \in 1..Len(exv) : exv[i].key = g
DictGet(exv, g) == exv[CHOOSE i \in 1..Len(exv) : exv[i].key = g].var
\* exv[g] = x: a new key goes last, a known key keeps its place.
DictSet(exv, g, x) ==
    IF DictHas(exv, g)
    THEN [i \in 1..Len(exv) |-> IF exv[i].key = g THEN [key |-> g, var |-> x] ELSE exv[i]]
    ELSE Append(exv, [key |-> g, var |-> x])

FreshNameMutant(exv) == "v" \o ToString(IF Len(exv) > 1 THEN Len(exv) - 1 ELSE Len(exv))

\* "v" + str(len(exv))
FreshName(exv) == "v" \o ToString(Len(exv))

\* LTLfFormula.new_var2(f, exv)
new_var2(g, exv) == DictSet(exv, g, PLAtomic(FreshName(exv)))

\* LTLfFormula.assigned_variable
assigned_variable(g, exv) == IF DictHas(exv, g) THEN DictGet(exv, g) ELSE PyNone

Always(x) == UnaryOperator("Always", x)
Equivalence(x, y) == BinaryOperator("Equivalence", <<x, y>>)

\* The children a node's _to_tlp clausifies, in the order it does.
TlpChildren(g) ==
    CASE g.op \in {"Not", "Next", "WeakNext"} -> <<g.args[1]>>
      [] g.op \in {"And", "Or"} -> g.args
      [] g.op \in {"Implies", "Equivalence"} -> <<g.args[1], g.args[2]>>
      [] g.op = "Until" -> <<g.args[1], g.args[2], UnaryOperator("Next", g)>>
      [] g.op = "Release" -> <<g.args[1], g.args[2], UnaryOperator("WeakNext", g)>>
      [] g.op = "Eventually" -> <<g.args[1], UnaryOperator("Next", g)>>
      [] g.op = "Always" -> <<g.args[1], UnaryOperator("WeakNext", g)>>

\* The constraints a node adds to df, from its variable nv and the values c
\* its children returned.
TlpConstraints(g, nv, c) ==
    CASE g.op = "Not" -> {Always(Equivalence(nv, UnaryOperator("Not", c[1])))}
      [] g.op \in {"And", "Or", "Implies", "Equivalence"} ->
            {Always(Equivalence(nv, BinaryOperator(g.op, c)))}
      [] g.op = "Next" ->
            {Always(Equivalence(nv, UnaryOperator("Next", c[1]))),
             Always(BinaryOperator("Implies", <<LTLfLast, UnaryOperator("Not", nv)>>))}
      [] g.op = "WeakNext" ->
            {Always(Equivalence(nv, UnaryOperator("WeakNext", c[1]))),
             Always(BinaryOperator("Implies", <<LTLfLast, nv>>))}
      [] g.op = "Until" ->
            {Always(Equivalence(nv, BinaryOperator("Or",
                <<c[2], BinaryOperator("And", <<c[1], c[3]>>)>>)))}
      [] g.op = "Release" ->
            {Always(Equivalence(nv, BinaryOperator("And",
                <<c[2], BinaryOperator("Or", <<c[1], c[3]>>)>>)))}
      [] g.op = "Eventually" ->
            {Always(Equivalence(nv, BinaryOperator("Or", <<c[1], c[2]>>)))}
      [] g.op = "Always" ->
            {Always(Equivalence(nv, BinaryOperator("And", <<c[1], c[2]>>)))}

\* The classes that define _to_tlp with a memo entry and a constraint.
TlpOps == {"Not", "And", "Or", "Implies", "Equivalence", "Next", "WeakNext",
           "Until", "Release", "Eventually", "Always"}

RECURSIVE to_tlp(_, _), TlpEach(_, _, _, _)

\* One child: its memo entry if it has one, else its own _to_tlp.
\* LTLfEventually asks its operand for to_tlp, a method no class has.
TlpChild(g, parent, k, st) ==
    LET cf == assigned_variable(g, st.exv)
    IN  IF ~IsNone(cf) THEN [st EXCEPT !.ret = cf]
        ELSE IF parent.op = "Eventually" /\ k = 1
             THEN [st EXCEPT !.err = "AttributeError", !.ret = PyNone]
             ELSE to_tlp(g, st)

\* The children from the k-th on, one after the other; rets collects what
\* they returned.
TlpEach(gs, parent, k, st) ==
    IF k > Len(gs) \/ st.err # "" THEN st
    ELSE LET s1 == TlpChild(gs[k], parent, k, st)
         IN  TlpEach(gs, parent, k + 1, [s1 EXCEPT !.rets = Append(st.rets, s1.ret)])

\* MemoFirst(g, st): the node's variable is stored before its children are
\* clausified.
MemoFirst(g, st) == [st EXCEPT !.exv = new_var2(g, st.exv), !.rets = <<>>]

to_tlp(g, st) ==
    CASE g.op \in {"Atomic", "True", "False", "Last", "End"} -> [st EXCEPT !.ret = g]
      \* No _to_tlp of their own: LTLfFormula._to_tlp returns None.
      [] g.op \in {"Init", "Before", "WBefore", "Since", "Trigger", "Once", "Historically"} ->
            [st EXCEPT !.ret = PyNone]
      [] g.op \in TlpOps ->
            LET nv0 == assigned_variable(g, st.exv)
            IN  IF ~IsNone(nv0) THEN [st EXCEPT !.ret = nv0]
                ELSE LET s1 == MemoFirst(g, st)
                         nv == DictGet(s1.exv, g)
                         s2 == TlpEach(TlpChildren(g), g, 1, s1)
                     IN  IF s2.err # "" THEN [s2 EXCEPT !.rets = st.rets]
                         ELSE [s2 EXCEPT !.df = s2.df \cup TlpConstraints(g, nv, s2.rets),
                                         !.ret = nv,
                                         !.rets = st.rets]

\* LTLfFormula.gen_tlp: a new dict and a new set for each call; the root's
\* value is added to the constraints.
gen_tlp(g) ==
    LET s0 == [exv |-> <<>>, df |-> {}, ret |-> PyNone, rets |-> <<>>, err |-> ""]
        s1 == to_tlp(g, s0)
    IN  IF s1.err # "" THEN s1 ELSE [s1 EXCEPT !.df = s1.df \cup {s1.ret}]

\* ------------------------------------------------------------ find_labels
RECURSIVE find_labels(_)
\* The set of label names, or the exception a child without the method raises.
\* The result is [err, names].
LabelsOfChildrenMutant(g) == <<find_labels(g.args[1])>>
LabelsOfChildren(g) == [i \in 1..Len(g.args) |-> find_labels(g.args[i])]
find_labels(g) ==
    CASE g.op \in {"None", "PyList", "Error"} -> [err |-> "AttributeError", names |-> {}]
      [] g.op \in {"Atomic", "PLAtomic"} -> [err |-> "", names |-> {g.name}]
      [] g.op \in {"True", "False", "Last", "End", "Init"} -> [err |-> "", names |-> {}]
      [] OTHER ->
            LET ls == LabelsOfChildren(g)
            IN  IF \E i \in 1..Len(ls) : ls[i].err # ""
                THEN [err |-> "AttributeError", names |-> {}]
                ELSE [err |-> "", names |-> UNION {ls[i].names : i \in 1..Len(ls)}]

\* set([v.upper() for v in g.find_labels()])
UpperLabels(g) == {Upper(n) : n \in find_labels(g).names}

\* ------------------------------------------------ the equivalence programs
\* A program: err (the exception, "" if none), header, decl (whether a var2
\* line is written), var2 (the names on it) and body (the asserted term).
Program(hd, d, vs, b) ==
    IF TIsErr(b) THEN [err |-> b.s, header |-> "", decl |-> FALSE, var2 |-> {}, body |-> b]
    ELSE [err |-> "", header |-> hd, decl |-> d, var2 |-> vs, body |-> b]
ProgramError(e) == Program("", FALSE, {}, TErr(e))

\* The elements of a set in some order, as a join walks them.
Listed(vs) ==
    CHOOSE q \in [1..Cardinality(vs) -> vs] : \A v \in vs : \E i \in DOMAIN q : q[i] = v

\* MonaProgram(g).mona_program(): the var2 line if there is a label, and the
\* direct encoding at "0".
MonaProgram(g) ==
    IF find_labels(g).err # "" THEN ProgramError("AttributeError")
    ELSE Program("m2l-str", UpperLabels(g) # {}, UpperLabels(g), to_mona(g, 0))

\* MonaSM(g).mona_program(): with labels, "{d} & ~(ex2 P_p,..: (subs & (neqs)&(s)))".
MonaSM(g) ==
    LET vs == UpperLabels(g)
        q == Listed(vs)
    IN  IF find_labels(g).err # "" THEN ProgramError("AttributeError")
        ELSE IF vs = {} THEN Program("m2l-str", FALSE, {}, to_mona(g, 0))
        ELSE Program("m2l-str", TRUE, vs,
                TConj(<<to_mona(g, 0),
                        TNot(TEx2({Primed(v) : v \in vs},
                            TConj(<<TAnd([i \in DOMAIN q |-> TSub(Primed(q[i]), q[i])]),
                                    TOr([i \in DOMAIN q |-> TNeq(Primed(q[i]), q[i])]),
                                    TParen(to_mona_s(g, 0))>>)))>>))

\* ",".join(["{0},{0}_p".format(v) for v in vs])
WithPrimed(vs) == vs \cup {Primed(v) : v \in vs}
\* "&".join(["{0}_p sub {0}".format(v) for v in vs])
SubConstraint(vs) ==
    IF vs = {} THEN TEmpty
    ELSE LET seq == CHOOSE q \in [1..Cardinality(vs) -> vs] : \A v \in vs : \E i \in DOMAIN q : q[i] = v
         IN  TAnd([i \in DOMAIN seq |-> TSub(Primed(seq[i]), seq[i])])

\* "(({}) <=> ({}))": the two biconditionals every branch asserts.
Both(d1, d2, s1, s2) == TAnd(<<TIff(TParen(d1), TParen(d2)), TIff(TParen(s1), TParen(s2))>>)

\* mona_program, the text MonaSF and MonaPSE share, for a header hd.
EquivalenceBody(hd, f1, f2) ==
    LET v1 == UpperLabels(f1)
        v2 == UpperLabels(f2)
        vars == v1 \cup v2
        d1 == to_mona(f1, 0)
        d2 == to_mona(f2, 0)
        s1 == to_mona_s(f1, 0)
        s2 == to_mona_s(f2, 0)
    IN
    IF v1 \subseteq v2 /\ v2 \subseteq v1
    THEN IF v1 = {}
         THEN Program(hd, FALSE, {}, TNot(Both(d1, d2, s1, s2)))
         ELSE Program(hd, TRUE, WithPrimed(vars),
                      TNot(TImp(TParen(SubConstraint(vars)), Both(d1, d2, s1, s2))))
    ELSE IF v1 \subseteq v2
    THEN LET exv2 == v2 \ v1
         IN  IF v1 # {}
             THEN Program(hd, TRUE, WithPrimed(v1),
                    TNot(TAnd(<<TIff(d1, TEx2(exv2, d2)),
                                TIff(TConj(<<SubConstraint(v1), s1>>),
                                     TEx2(WithPrimed(exv2), TConj(<<SubConstraint(v2), s2>>)))>>)))
             ELSE Program(hd, FALSE, {},
                    TNot(TAnd(<<TIff(d1, TEx2(exv2, d2)),
                                TIff(TParen(s1),
                                     TEx2(WithPrimed(exv2), TConj(<<SubConstraint(v2), s2>>)))>>)))
    ELSE IF v2 \subseteq v1
    THEN LET exv1 == v1 \ v2
         IN  Program(hd, TRUE, WithPrimed(v2),
                TNot(TAnd(<<TIff(TEx2(exv1, d1), TParen(d2)),
                            TIff(TEx2(WithPrimed(exv1), TConj(<<SubConstraint(v1), s1>>)),
                                 TConj(<<SubConstraint(v2), s2>>))>>)))
    ELSE LET fv == v1 \cap v2
             exv1 == v1 \ fv
             exv2 == v2 \ fv
         IN  Program(hd, TRUE, WithPrimed(fv),
                TNot(TAnd(<<TIff(TEx2(exv1, d1), TEx2(exv2, d2)),
                            TIff(TEx2(WithPrimed(exv1), TConj(<<SubConstraint(v1), s1>>)),
                                 TEx2(WithPrimed(exv2), TConj(<<SubConstraint(v2), s2>>)))>>)))

\* MonaSF(f1, f2).mona_program(): __init__ reads both label sets; the class
\* has header = "m2l-str".
MonaSF(f1, f2) ==
    IF find_labels(f1).err # "" \/ find_labels(f2).err # ""
    THEN ProgramError("AttributeError")
    ELSE EquivalenceBody("m2l-str", f1, f2)

\* MonaPSE(f1, f2).mona_program(): the class defines no header, and every
\* branch formats self.header before it encodes anything.
MonaPSE(f1, f2) == ProgramError("AttributeError")

\* ------------------------------------------------------------ the machine
\* f is the formula an operation is applied to.  pc names the operation that
\* ran last; res is the formula it returned (or took as its second operand),
\* txt the text an encoder returned, tlp the state gen_tlp ended in, prog the
\* program an equivalence encoder returned, labels what find_labels returned,
\* arg what a constructor was given.
\* w and pos are the string model and the position a text is read at.
VARIABLES f, pc, res, txt, w, pos, tlp, prog, labels, arg
vars == <<f, pc, res, txt, w, pos, tlp, prog, labels, arg>>

Props == {"a", "b"}
Leaves == {LTLfAtomic(p) : p \in Props} \cup {LTLfTrue, LTLfFalse, LTLfLast, LTLfEnd, LTLfInit}
Un(S) == {Mk(o, "", <<x>>) : o \in UnaryOps, x \in S}
Bin(S, R) == {Mk(o, "", <<x, y>>) : o \in BinaryOps, x \in S, y \in R}
Level1 == Leaves \cup Un(Leaves) \cup Bin(Leaves, Leaves)
Atoms == {LTLfAtomic(p) : p \in Props}
\* Every formula of depth at most one, every unary operator over those, two
\* unary operators over an operator on propositions, and every binary
\* operator over two unary ones.
\* And(Or(a, b), Not(a)): a proposition at two places.
Repeated ==
    BinaryOperator("And", <<BinaryOperator("Or", <<LTLfAtomic("a"), LTLfAtomic("b")>>),
                            UnaryOperator("Not", LTLfAtomic("a"))>>)
Formulas ==
    Level1 \cup Un(Level1)
        \cup Un(Un(Un(Atoms) \cup Bin(Atoms, Atoms)))
        \cup Bin(Un({LTLfAtomic("a")}), Un({LTLfAtomic("b")}))
        \cup {Repeated}

\* The formulas the clausifier is run on: the same shapes over propositions
\* that include one named like a fresh variable.
TlpProps == {"a", "v0"}
TlpLeaves == {LTLfAtomic(p) : p \in TlpProps} \cup {LTLfTrue, LTLfLast}
TlpLevel1 == TlpLeaves \cup Un(TlpLeaves) \cup Bin(TlpLeaves, TlpLeaves)
TlpFormulas == TlpLevel1 \cup Un(TlpLevel1)
                \cup {Mk(o, "", <<x, y>>) : o \in {"And", "Until"},
                                           x \in Un(TlpLeaves), y \in Un(TlpLeaves)}

SetNames == {"A", "B", "A_p", "B_p"}
\* A string of n letters over the propositions of Props, and the primed
\* companions empty.
DirectWorlds ==
    UNION {{[n |-> n, sat |-> s,
             val |-> [S \in SetNames |-> IF S \in {"A", "B"} THEN x[S] ELSE {}]] :
                x \in [{"A", "B"} -> SUBSET (0..(n - 1))], s \in BOOLEAN} : n \in 1..MaxLen}
\* Every valuation of the variables and of their primed companions.
AllWorlds ==
    UNION {{[n |-> n, sat |-> s, val |-> x] :
                x \in [SetNames -> SUBSET (0..(n - 1))], s \in BOOLEAN} : n \in 1..MaxLen}

\* The valuations in which every primed variable is inside its unprimed one,
\* as the sub constraint of MonaSF.mona_program asserts.
SubWorlds == {x \in AllWorlds : x.val["A_p"] \subseteq x.val["A"] /\ x.val["B_p"] \subseteq x.val["B"]}

\* What a variable holds before the operation that sets it has run.
Unset == <<>>

Start ==
    /\ pc = "new" /\ res = Unset /\ txt = Unset /\ w = Unset /\ pos = 0
    /\ tlp = Unset /\ prog = Unset /\ labels = Unset /\ arg = Unset

Init == f \in Formulas /\ Start
InitTlp == f \in TlpFormulas /\ Start

\* f.to_nnf()
ToNnf ==
    /\ pc = "new" /\ pc' = "to_nnf"
    /\ res' = to_nnf(f)
    /\ UNCHANGED <<f, arg, labels, txt, w, pos, tlp, prog>>

\* f.negate().negate()
NegateTwice ==
    /\ pc = "new" /\ pc' = "negate2"
    /\ res' = negate(negate(f))
    /\ UNCHANGED <<f, arg, labels, txt, w, pos, tlp, prog>>

\* f.to_nnf().to_nnf()
NnfTwice ==
    /\ pc = "new" /\ pc' = "nnf2"
    /\ res' = to_nnf(to_nnf(f))
    /\ UNCHANGED <<f, arg, labels, txt, w, pos, tlp, prog>>

\* f.to_nnf().negate().to_nnf()
Dual ==
    /\ pc = "new" /\ pc' = "dual"
    /\ res' = to_nnf(negate(to_nnf(f)))
    /\ UNCHANGED <<f, arg, labels, txt, w, pos, tlp, prog>>

\* res.to_mona("0"), read by the solver on one string.
Solve ==
    /\ pc \in {"to_nnf", "negate2", "dual"} /\ pc' = pc \o "+mona"
    /\ txt' = to_mona(res, 0)
    /\ w' \in DirectWorlds /\ pos' = 0
    /\ UNCHANGED <<f, arg, labels, res, tlp, prog>>

\* f.to_mona(v) for v = "0" or the variable v_1, read on one string with v_1
\* at position pos.
ToMona ==
    /\ pc = "new" /\ pc' = "to_mona"
    /\ \E v \in {0, 1} :
          /\ txt' = to_mona(f, v)
          /\ res' = Pos(v)
          /\ w' \in DirectWorlds
          /\ pos' \in IF v = 0 THEN {0} ELSE 0..(w'.n - 1)
    /\ UNCHANGED <<f, arg, labels, tlp, prog>>

\* The formula that holds g at k places under one parent: g itself for k = 0.
Shared(g, k) ==
    IF k = 0 THEN g
    ELSE BinaryOperator("And", [i \in 1..(k + 1) |-> IF i <= k THEN g ELSE LTLfAtomic("a")])

\* Shared(f, k).gen_tlp()
GenTlp ==
    /\ pc = "new" /\ pc' = "gen_tlp"
    /\ \E k \in 0..MaxCopies :
          /\ res' = Shared(f, k)
          /\ pos' = k
          /\ tlp' = gen_tlp(Shared(f, k))
    /\ UNCHANGED <<f, arg, labels, txt, w, prog>>

\* The second operands that give f a label set equal to, inside, around and
\* across its own.
Seconds ==
    {LTLfAtomic("a"), LTLfTrue,
     BinaryOperator("And", <<LTLfAtomic("a"), LTLfAtomic("b")>>),
     BinaryOperator("And", <<LTLfAtomic("b"), LTLfAtomic("c")>>)}

\* MonaSF(f, g).mona_program() for g = f, g = f.to_nnf() and g another formula.
EncodeSF ==
    /\ pc = "new"
    /\ \/ pc' = "sf_self" /\ res' = f
       \/ pc' = "sf_nnf" /\ res' = to_nnf(f)
       \/ pc' = "sf_pair" /\ res' \in Seconds
    /\ prog' = IF IsErr(res') THEN ProgramError(res'.name) ELSE MonaSF(f, res')
    /\ UNCHANGED <<f, arg, labels, txt, w, pos, tlp>>

\* MonaPSE(f, g).mona_program() for g = f and g another formula.
EncodePSE ==
    /\ pc = "new"
    /\ \/ pc' = "pse_self" /\ res' = f
       \/ pc' = "pse_pair" /\ res' \in Seconds
    /\ prog' = MonaPSE(f, res')
    /\ UNCHANGED <<f, arg, labels, txt, w, pos, tlp>>

\* f.negate()
Negate ==
    /\ pc = "new" /\ pc' = "negate"
    /\ res' = negate(f)
    /\ UNCHANGED <<f, arg, labels, txt, w, pos, tlp, prog>>

\* f.to_mona_s(v) for v = "0" or the variable v_1.
ToMonaS ==
    /\ pc = "new" /\ pc' = "to_mona_s"
    /\ \E v \in {0, 1} :
          /\ txt' = to_mona_s(f, v)
          /\ res' = Pos(v)
    /\ UNCHANGED <<f, arg, labels, w, pos, tlp, prog>>

\* f.to_mona_s(v) next to f.to_mona(v), read on one string whose primed sets
\* are inside the unprimed ones.
Persist ==
    /\ pc = "new" /\ pc' = "persist"
    /\ \E v \in {0, 1} :
          /\ txt' = to_mona_s(f, v)
          /\ res' = Pos(v)
          /\ w' \in SubWorlds
          /\ pos' \in IF v = 0 THEN {0} ELSE 0..(w'.n - 1)
    /\ UNCHANGED <<f, arg, labels, tlp, prog>>

\* The formulas f is compared with: the markers, a proposition, and an
\* operator over two of the markers.
Others ==
    {LTLfLast, LTLfEnd, LTLfInit, LTLfAtomic("a"),
     UnaryOperator("Next", LTLfLast), UnaryOperator("Next", LTLfInit)}

\* f == g, str(f) and str(g), under either way Hashable.__eq__ may compare.
Compare ==
    /\ pc = "new" /\ pc' = "compare"
    /\ \E g \in Others, typed \in BOOLEAN :
          /\ res' = g
          /\ arg' = [kind |-> "eq", name |-> <<str(f), str(g)>>,
                      k |-> IF Equal(f, g, typed) THEN 1 ELSE 0, typed |-> typed]
    /\ UNCHANGED <<f, labels, txt, w, pos, tlp, prog>>

\* LTLfAtomic(name), or LTLfAnd of k copies of a.
Construct ==
    /\ pc = "new" /\ pc' = "construct"
    /\ \/ \E n \in UNION {[1..k -> NameChars] : k \in 0..MaxName} :
             /\ arg' = [kind |-> "name", name |-> n, k |-> 0]
             /\ res' = AtomicFormula(n)
       \/ \E k \in 0..MaxArity :
             /\ arg' = [kind |-> "formulas", name |-> <<>>, k |-> k]
             /\ res' = BinaryOperator("And", [i \in 1..k |-> LTLfAtomic("a")])
    /\ UNCHANGED <<f, labels, txt, w, pos, tlp, prog>>

\* f.find_labels()
FindLabels ==
    /\ pc = "new" /\ pc' = "find_labels"
    /\ labels' = find_labels(f)
    /\ UNCHANGED <<f, arg, res, txt, w, pos, tlp, prog>>

\* MonaProgram(f).mona_program()
EncodeProgram ==
    /\ pc = "new" /\ pc' = "program"
    /\ res' = f
    /\ prog' = MonaProgram(f)
    /\ UNCHANGED <<f, arg, labels, txt, w, pos, tlp>>

\* MonaSM(f).mona_program()
EncodeSM ==
    /\ pc = "new" /\ pc' = "sm"
    /\ res' = f
    /\ prog' = MonaSM(f)
    /\ UNCHANGED <<f, arg, labels, txt, w, pos, tlp>>

NextNnf == ToNnf \/ NegateTwice \/ NnfTwice \/ Dual \/ Solve
NextEq == EncodeSF \/ EncodePSE \/ EncodeProgram \/ EncodeSM
\* Each transformation applied once to a formula.
NextEach == ToNnf \/ Negate \/ ToMona \/ ToMonaS \/ GenTlp \/ FindLabels
Next == NextNnf \/ NextEach \/ NextEq \/ Construct \/ Persist \/ Compare

Spec == Init /\ [][Next]_vars
SpecNnf == Init /\ [][NextNnf]_vars
SpecMona == Init /\ [][ToMona]_vars
SpecEq == Init /\ [][NextEq]_vars
SpecTlp == InitTlp /\ [][GenTlp]_vars
SpecEach == Init /\ [][NextEach]_vars
InitNew == f = LTLfTrue /\ Start
\* What ltlf_implication and ltlf_equivalence build for 'a -> b -> ..': one
\* node over two to MaxArity propositions.
Chains ==
    {Mk(o, "", cs) : o \in {"Implies", "Equivalence"},
                     cs \in UNION {[1..k -> Atoms] : k \in 2..MaxArity}}
InitChain == f \in Chains /\ Start
SpecChain == InitChain /\ [][ToMona \/ ToMonaS]_vars
SpecNew == InitNew /\ [][Construct]_vars
\* Every formula of depth at most one, and Not over every operator on
\* propositions.
PersistFormulas ==
    Level1 \cup {UnaryOperator("Not", x) : x \in Un(Atoms) \cup Bin(Atoms, Atoms)}
InitPersist == f \in PersistFormulas /\ Start
InitCompare == f \in Level1 /\ Start
SpecCompare == InitCompare /\ [][Compare]_vars
SpecPersist == InitPersist /\ [][Persist]_vars
\* ------------------------------------------------------------ the claims
\* No Not node of x has a child with children of its own.
RECURSIVE InNnf(_)
InNnf(x) ==
    /\ (x.op = "Not" => x.args[1].args = <<>>)
    /\ \A i \in 1..Len(x.args) : InNnf(x.args[i])

\* C1: the tree f.to_nnf() returns has no Not node over a non-atomic child
\* (here even with the markers Last, End and Init counted as atomic).
C1_NnfNoCompoundNegation == (pc = "to_nnf" /\ IsFormula(res)) => InNnf(res)

\* The direct encoding of g at the initial position, read on the string w.
Direct(g, ww) == Holds(to_mona(g, 0), NoEnv, ww)
\* Both encodings are texts the solver can read.
Readable(g) == IsFormula(g) /\ WellFormed(to_mona(g, 0))

\* C2: the direct encoding of to_nnf(negate(to_nnf(f))) is true at the
\* initial position of a trace exactly when the direct encoding of f is false.
C2_Duality ==
    (pc = "dual+mona" /\ Readable(res) /\ Readable(f)) => (Holds(txt, NoEnv, w) <=> ~Direct(f, w))

\* C3: the direct encoding of negate(negate(f)) has the truth value of the
\* direct encoding of f at the initial position of every trace.
C3_NegateInvolution ==
    (pc = "negate2+mona" /\ Readable(res) /\ Readable(f)) => (Holds(txt, NoEnv, w) <=> Direct(f, w))

\* The operators the cross-check runs over: all but the markers End and Init.
RECURSIVE CrossChecked(_)
CrossChecked(g) ==
    /\ g.op \notin {"End", "Init"}
    /\ \A i \in 1..Len(g.args) : CrossChecked(g.args[i])

\* C6: for f built from the cross-checked operators, the direct encoding of f
\* at a position has the truth value the finite-trace semantics gives f at
\* that position.
C6_DirectMatchesSemantics ==
    (pc = "to_mona" /\ CrossChecked(f)) =>
        /\ WellFormed(txt)
        /\ Holds(txt, (1 :> pos), w) <=> Sat(f, pos, w)

\* No string of at most MaxLen letters, with any valuation of the variables
\* and of their primed companions, makes the asserted body true.
Unsatisfiable(b) == \A ww \in AllWorlds : ~Holds(b, NoEnv, ww)

\* C4: the equivalence encoder applied to (f, f) returns a program, and no
\* string and no pair of valuations makes its body true.
C4_EquivalenceReflexive ==
    pc \in {"sf_self", "pse_self"} =>
        /\ prog.err = ""
        /\ WellFormed(prog.body)
        /\ Unsatisfiable(prog.body)

\* C5: when the equivalence encoder applied to (f, to_nnf(f)) returns a
\* program the solver can read, no string and no pair of valuations makes its
\* body true.
C5_NnfStronglyEquivalent ==
    (pc = "sf_nnf" /\ prog.err = "" /\ WellFormed(prog.body)) => Unsatisfiable(prog.body)

\* The names of the variables one gen_tlp call allocated.
FreshNames(st) == {st.exv[i].var.name : i \in 1..Len(st.exv)}

\* A constraint with no None in it.
RECURSIVE Clean(_)
Clean(g) == IsFormula(g) /\ \A i \in 1..Len(g.args) : Clean(g.args[i])

\* The traces of at most MaxLen positions over the propositions named S.
TracesOver(S) ==
    UNION {{[n |-> n, sat |-> TRUE, val |-> x] : x \in [S -> SUBSET (0..(n - 1))]} : n \in 1..MaxLen}

\* Some valuation of the variables named S, added to the trace t, makes every
\* constraint of st true at the initial position.
Extends(st, t, S) ==
    \E e \in [S -> SUBSET (0..(t.n - 1))] :
        \A c \in st.df : Sat(c, 0, [t EXCEPT !.val = e @@ t.val])

\* C7: gen_tlp returns constraints, and a trace over the propositions of the
\* formula satisfies the formula exactly when a valuation of the fresh
\* variables extends it to a trace that satisfies every constraint.
C7_Equisatisfiable ==
    pc = "gen_tlp" =>
        /\ tlp.err = ""
        /\ \A c \in tlp.df : Clean(c)
        /\ LET own == UpperLabels(res)
               fresh == {Upper(n) : n \in FreshNames(tlp)} \ own
           IN  \A t \in TracesOver(own) : Sat(res, 0, t) <=> Extends(tlp, t, fresh)

\* C8: with f at k >= 1 places under one parent, gen_tlp returns as many
\* constraints and allocates as many variables as it does with f at one place.
C8_SharingBound ==
    (pc = "gen_tlp" /\ pos >= 1) =>
        LET one == gen_tlp(Shared(f, 1))
        IN  /\ tlp.err = "" /\ one.err = ""
            /\ Len(tlp.exv) = Len(one.exv)
            /\ Cardinality(tlp.df) = Cardinality(one.df)

C10_FreshNamesDisjoint ==
    pc = "gen_tlp" => FreshNames(tlp) \cap find_labels(res).names = {}

\* C11: each of to_nnf, negate, to_mona, to_mona_s and gen_tlp returns a
\* result of its kind (a formula, a text, a set of constraints): none raises
\* and none returns None.
C11_Total ==
    /\ pc \in {"to_nnf", "negate"} => IsFormula(res)
    /\ pc \in {"to_mona", "to_mona_s"} => ~TIsErr(txt) /\ txt # TNone
    /\ pc = "gen_tlp" => tlp.err = ""

\* The position argument an encoder was called with: 0 for "0", n for v_n.
ArgOf(p) == IF p.b = "lit" THEN 0 ELSE p.n

\* C12: the direct encoding of Next(g) is "ex1 x: x=1 & .." at the initial
\* position and "ex1 x: x=v+1 & .." at the position v, with x a variable other
\* than v and the rest the direct encoding of g at x.
C12_NextShape ==
    (pc = "to_mona" /\ f.op = "Next") =>
        LET v == ArgOf(res)
        IN  /\ txt.k = "ex1"
            /\ txt.x # v
            /\ txt.c[1] = TConj(<<TEq(Var(txt.x), IF v = 0 THEN Lit(1) ELSE Plus(Var(v), 1)),
                                  to_mona(f.args[1], txt.x)>>)

\* The number of nodes of a formula.
RECURSIVE Size(_), SumSizes(_)
SumSizes(xs) == IF xs = <<>> THEN 0 ELSE Size(Head(xs)) + SumSizes(Tail(xs))
Size(g) == 1 + SumSizes(g.args)

\* C18: negate and to_nnf return without running out of stack, and gen_tlp
\* memoizes at most two nodes (the node and its unfolding) for each node of
\* the formula.
C18_Terminates ==
    /\ pc \in {"to_nnf", "negate"} => ~(IsErr(res) /\ res.name = "RecursionError")
    /\ pc = "gen_tlp" => Len(tlp.exv) <= 2 * Size(res)

\* The proposition n stands somewhere in g.
RECURSIVE Occurs(_, _)
Occurs(n, g) ==
    \/ g.op = "Atomic" /\ g.name = n
    \/ \E i \in 1..Len(g.args) : Occurs(n, g.args[i])

\* C13: find_labels returns the set of the proposition names that occur in
\* the formula, and nothing for True, False, Last, End and Init.
C13_LabelsExact ==
    pc = "find_labels" =>
        /\ labels.err = ""
        /\ labels.names = {n \in Props : Occurs(n, f)}

\* C13 witness: find_labels has run on And(Or(a, b), Not(a)).
C13_Witness == pc = "find_labels" /\ f = Repeated /\ labels.names = {"a", "b"}

\* A name of word characters only, and a name between two quotes.
WordName(n) == Len(n) >= 1 /\ \A i \in 1..Len(n) : n[i] \in {"a", "A", "1", "_"}
QuotedName(n) == Len(n) >= 2 /\ n[1] = "\"" /\ n[Len(n)] = "\""

\* C14: an atomic formula is constructed exactly when its name is of word
\* characters or quoted, and the constructor raises ValueError otherwise; an
\* n-ary operator over fewer than two operands raises AssertionError.
C14_ConstructionValidates ==
    pc = "construct" =>
        /\ arg.kind = "name" =>
              IF WordName(arg.name) \/ QuotedName(arg.name)
              THEN res = Mk("Atomic", arg.name, <<>>)
              ELSE res = PyError("ValueError")
        /\ arg.kind = "formulas" =>
              IF arg.k < 2 THEN res = PyError("AssertionError") ELSE IsFormula(res)

\* C15: every encoder returns a program with the header m2l-str and with a
\* var2 line only if the line lists a variable; MonaProgram declares the
\* upper-cased labels of the formula and asserts its direct encoding at "0".
C15_ProgramLayout ==
    pc \in {"program", "sm", "pse_self", "sf_self", "sf_nnf", "sf_pair"} =>
        /\ prog.err = ""
        /\ prog.header = "m2l-str"
        /\ prog.decl => prog.var2 # {}
        /\ pc = "program" =>
              /\ prog.decl <=> find_labels(f).names # {}
              /\ prog.var2 = {Upper(n) : n \in find_labels(f).names}
              /\ prog.body = to_mona(f, 0)

\* The upper-cased labels of the two operands of an equivalence program.
V1 == {Upper(n) : n \in find_labels(f).names}
V2 == {Upper(n) : n \in find_labels(res).names}
\* A side of a biconditional without the ex2 around it.
StripEx2(t) == IF t.k = "ex2" THEN t.c[1] ELSE t
\* The side t is the primed encoding s, alone or after the subset constraint
\* of the variables S.
PrimedSide(t, s, S) ==
    \/ StripEx2(t) = TParen(s)
    \/ StripEx2(t) = TConj(<<SubConstraint(S), s>>)
\* t is the conjunction of a biconditional between the direct encodings and
\* one between the primed encodings of f and res.
TwoBiconditionals(t) ==
    /\ t.k = "and" /\ Len(t.c) = 2
    /\ t.c[1].k = "iff" /\ t.c[2].k = "iff"
    /\ StripEx2(t.c[1].c[1]) \in {to_mona(f, 0), TParen(to_mona(f, 0))}
    /\ StripEx2(t.c[1].c[2]) \in {to_mona(res, 0), TParen(to_mona(res, 0))}
    /\ PrimedSide(t.c[2].c[1], to_mona_s(f, 0), V1)
    /\ PrimedSide(t.c[2].c[2], to_mona_s(res, 0), V2)

\* C16: the body an equivalence encoder asserts is the negation of the two
\* biconditionals, under the implication from the subset constraint when the
\* label sets are equal and not empty.
C16_BodyShape ==
    pc \in {"pse_self", "sf_self", "sf_nnf", "sf_pair"} =>
        /\ prog.err = ""
        /\ prog.body.k = "not"
        /\ IF V1 = V2 /\ V1 # {}
           THEN /\ prog.body.c[1].k = "imp"
                /\ prog.body.c[1].c[1] = SubConstraint(V1)
                /\ TwoBiconditionals(prog.body.c[1].c[2])
           ELSE TwoBiconditionals(prog.body.c[1])

\* The side t is quantified by ex2 over exactly the variables S, with or
\* without their primed companions; for S empty it is not quantified.
Quantifies(t, S) ==
    IF S = {} THEN t.k # "ex2" ELSE t.k = "ex2" /\ t.vs \in {S, WithPrimed(S)}

\* C17: with different label sets, MonaSF puts ex2 over the variables only f
\* has around the sides of f, ex2 over the variables only res has around the
\* sides of res, and declares the shared variables and their companions.
C17_PrivateQuantified ==
    (pc \in {"sf_self", "sf_nnf", "sf_pair"} /\ V1 # V2) =>
        /\ prog.err = ""
        /\ prog.var2 = WithPrimed(V1 \cap V2)
        /\ prog.body.k = "not" /\ prog.body.c[1].k = "and"
        /\ \A i \in 1..2 :
              /\ prog.body.c[1].c[i].k = "iff"
              /\ Quantifies(prog.body.c[1].c[i].c[1], V1 \ V2)
              /\ Quantifies(prog.body.c[1].c[i].c[2], V2 \ V1)

\* The direct encoding of the operand of f at the variable v_1, read with v_1
\* at the position i of w.
OperandAt(i, ww) == Holds(to_mona(f.args[1], 1), (1 :> i), ww)

\* C19: at the last position the direct encoding of WeakNext(g) is true and
\* that of Next(g) is false; at another position v both have the truth value
\* of the encoding of g at v+1; the encoding of Last is true at the last
\* position only.
C19_NextAtBoundary ==
    (pc = "to_mona" /\ f.op \in {"Next", "WeakNext", "Last"}) =>
        /\ WellFormed(txt)
        /\ LET here == Holds(txt, (1 :> pos), w)
               last == w.n - 1
           IN  CASE f.op = "Last" -> here <=> pos = last
                 [] f.op = "Next" -> here <=> (pos < last /\ OperandAt(pos + 1, w))
                 [] f.op = "WeakNext" -> here <=> (pos = last \/ OperandAt(pos + 1, w))

\* The boundary form of a past-time operator g at the initial position, from
\* the encodings e of its operands there.
BoundaryForm(g, e) ==
    CASE g.op = "Before" -> TFalse
      [] g.op = "WBefore" -> TTrue
      [] g.op \in {"Since", "Trigger"} -> e[2]
      [] g.op \in {"Once", "Historically"} -> e[1]

\* C20: at the initial position the direct encoding of a past-time operator
\* is its boundary form over the direct encodings of its operands, and the
\* primed encoding the same form over their primed encodings.
C20_PastAtInitial ==
    (f.op \in {"Before", "WBefore", "Since", "Trigger", "Once", "Historically"}
        /\ pc \in {"to_mona", "to_mona_s"} /\ ArgOf(res) = 0) =>
        /\ pc = "to_mona" => txt = BoundaryForm(f, MonaChildren(f, 0))
        /\ pc = "to_mona_s" => txt = BoundaryForm(f, MonaSChildren(f, 0))

\* The first-order variables a position expression names.
PosVars(p) == IF p.b = "var" THEN {p.n} ELSE {}
IsQuantifier(t) == t.k \in {"ex1", "all1"}
IsComparison(t) == t.k \in {"eq", "le", "lt"}

\* The position variables of t that no quantifier of t binds.
RECURSIVE FreeVars(_)
FreeVars(t) ==
    LET below == UNION {FreeVars(t.c[i]) : i \in 1..Len(t.c)}
    IN  CASE IsQuantifier(t) -> below \ {t.x}
          [] IsComparison(t) -> PosVars(t.l) \cup PosVars(t.r)
          [] t.k = "in" -> PosVars(t.l)
          [] OTHER -> below

\* A template relates the variables it binds to its position argument and to
\* one another (x=v+1, v<=e, e<a): were a variable it binds to take the name
\* of one it refers to, the comparison would have that name on both sides.
RECURSIVE SelfCompared(_)
SelfCompared(t) ==
    \/ IsComparison(t) /\ PosVars(t.l) \cap PosVars(t.r) # {}
    \/ \E i \in 1..Len(t.c) : SelfCompared(t.c[i])

\* Some quantifier of t binds a name that a quantifier around it, one of
\* bound, binds already.
RECURSIVE Rebinds(_, _)
Rebinds(t, bound) ==
    \/ IsQuantifier(t) /\ t.x \in bound
    \/ \E i \in 1..Len(t.c) :
          Rebinds(t.c[i], IF IsQuantifier(t) THEN bound \cup {t.x} ELSE bound)

RECURSIVE Nodes(_)
Nodes(g) == {g} \cup UNION {Nodes(g.args[i]) : i \in 1..Len(g.args)}

\* The variable the memo exv holds for h, and h itself where it holds none.
VarOf(h, exv) == IF DictHas(exv, h) THEN DictGet(exv, h) ELSE h

\* The one-step unfolding of the temporal node g over the variables of exv.
Unfolding(g, exv) ==
    LET n == VarOf(UnaryOperator("Next", g), exv)
        wn == VarOf(UnaryOperator("WeakNext", g), exv)
        c == [i \in 1..Len(g.args) |-> VarOf(g.args[i], exv)]
    IN  CASE g.op = "Until" ->
                BinaryOperator("Or", <<c[2], BinaryOperator("And", <<c[1], n>>)>>)
          [] g.op = "Release" ->
                BinaryOperator("And", <<c[2], BinaryOperator("Or", <<c[1], wn>>)>>)
          [] g.op = "Eventually" -> BinaryOperator("Or", <<c[1], n>>)
          [] g.op = "Always" -> BinaryOperator("And", <<c[1], wn>>)

\* C22: gen_tlp gives every Until, Release, Eventually and Always node a
\* variable x and the constraint Always(x <=> unfolding) over the variables of
\* its children and of Next(node) or WeakNext(node), and every Next variable n
\* the constraint Always(Last => not n), every WeakNext variable wn the
\* constraint Always(Last => wn).
C22_Unfolding ==
    pc = "gen_tlp" =>
        /\ \A g \in Nodes(res) :
              g.op \in {"Until", "Release", "Eventually", "Always"} =>
                  /\ tlp.err = "" /\ DictHas(tlp.exv, g)
                  /\ Always(Equivalence(DictGet(tlp.exv, g), Unfolding(g, tlp.exv))) \in tlp.df
        /\ \A i \in 1..Len(tlp.exv) :
              LET nv == tlp.exv[i].var
              IN  /\ tlp.exv[i].key.op = "Next" =>
                        (tlp.err = "" /\ Always(BinaryOperator("Implies",
                            <<LTLfLast, UnaryOperator("Not", nv)>>)) \in tlp.df)
                  /\ tlp.exv[i].key.op = "WeakNext" =>
                        (tlp.err = "" /\ Always(BinaryOperator("Implies", <<LTLfLast, nv>>)) \in tlp.df)

\* The operands of a chain of the connective kind, left to right, however the
\* chain is bracketed; a text that is no such chain is its one operand.
RECURSIVE ChainOperands(_, _)
ChainOperands(t, kind) ==
    IF t.k = kind THEN ChainOperands(t.c[1], kind) \o ChainOperands(t.c[2], kind)
    ELSE <<t>>

Connective(g) == IF g.op = "Implies" THEN "imp" ELSE "iff"

\* C23: the direct encoding of an Implies or Equivalence node is the chain of
\* the connective over the direct encodings of all its children, and the
\* primed encoding the conjunction of that chain and of the chain over the
\* primed encodings of all its children.
C23_ChainOverAll ==
    (f.op \in {"Implies", "Equivalence"} /\ pc \in {"to_mona", "to_mona_s"}
        /\ \A i \in 1..Len(f.args) : f.args[i].op = "Atomic") =>
        LET v == ArgOf(res)
        IN  /\ pc = "to_mona" => ChainOperands(txt, Connective(f)) = MonaChildren(f, v)
            /\ pc = "to_mona_s" =>
                   /\ txt.k \in {"and", "bare_and"} /\ Len(txt.c) = 2
                   /\ ChainOperands(txt.c[1], Connective(f)) = MonaChildren(f, v)
                   /\ ChainOperands(txt.c[2], Connective(f)) = MonaSChildren(f, v)

\* C24: the direct encoding of to_nnf(f) is a text the solver reads, and at
\* the initial position of every trace it has the truth value of the direct
\* encoding of f.
C24_NnfPreservesDirect ==
    pc = "to_nnf+mona" =>
        /\ IsFormula(res) /\ WellFormed(txt) /\ WellFormed(to_mona(f, 0))
        /\ Holds(txt, NoEnv, w) <=> Direct(f, w)

\* C25: normalising the tree f.to_nnf() returns gives that tree again.
C25_NnfIdempotent == pc = "nnf2" => res = to_nnf(f)

\* C26: where every primed variable is inside its unprimed one, a primed
\* encoding that is true at a position has a direct encoding that is true
\* there.
C26_Persistence ==
    (pc = "persist" /\ WellFormed(txt) /\ Holds(txt, (1 :> pos), w)) =>
        LET d == to_mona(f, ArgOf(res))
        IN  WellFormed(d) /\ Holds(d, (1 :> pos), w)

\* C26: the primed encoding of a negation holds on a string whose primed sets
\* are strictly inside the unprimed ones, and so does the direct encoding.
C26_Witness ==
    /\ pc = "persist" /\ f.op = "Not" /\ f.args[1].op = "Equivalence"
    /\ w.val["A_p"] # w.val["A"]
    /\ WellFormed(txt) /\ Holds(txt, (1 :> pos), w)
    /\ Holds(to_mona(f, ArgOf(res)), (1 :> pos), w)

\* C27: MonaPSE(f1, f2).mona_program() returns a program, and it is the
\* program MonaSF(f1, f2).mona_program() returns, whichever way the label
\* sets of f1 and f2 lie to one another.
C27_EncodersAgree ==
    pc \in {"pse_self", "pse_pair"} => (prog.err = "" /\ prog = MonaSF(f, res))

\* The second-order variables of t that no ex2 of t binds.
RECURSIVE FreeSets(_)
FreeSets(t) ==
    LET below == UNION {FreeSets(t.c[i]) : i \in 1..Len(t.c)}
    IN  CASE t.k = "in" -> {t.s}
          [] t.k \in {"sub", "neq"} -> {t.s, t.u}
          [] t.k = "ex2" -> below \ t.vs
          [] OTHER -> below

\* C28: every second-order variable in the body of a program MonaProgram,
\* MonaSM, MonaPSE or MonaSF returns is on the var2 line of the program or
\* inside an ex2 that binds it.
C28_SetsDeclared ==
    (pc \in {"program", "sm", "pse_self", "pse_pair", "sf_self", "sf_nnf", "sf_pair"}
        /\ prog.err = "") =>
        FreeSets(prog.body) \subseteq (IF prog.decl THEN prog.var2 ELSE {})

\* C29: the text to_mona and to_mona_s return is one unit wherever a parent
\* puts it, so the primed encoding of Not(g) negates the whole primed and the
\* whole direct encoding of g.
C29_SelfContained ==
    pc \in {"to_mona", "to_mona_s"} =>
        /\ txt.k # "bare_and"
        /\ (pc = "to_mona_s" /\ f.op = "Not" /\ ~TIsErr(txt)) =>
               txt = TAnd(<<TNot(TParen(to_mona_s(f.args[1], ArgOf(res)))),
                            TNot(TParen(to_mona(f.args[1], ArgOf(res))))>>)

\* C30: LTLfInit and LTLfLast have different member tuples and different
\* strings, and are not equal, so neither is found under the other's key.
C30_MarkersDistinct ==
    (pc = "compare" /\ {f.op, res.op} = {"Init", "Last"}) =>
        /\ members(f) # members(res)
        /\ arg.name[1] # arg.name[2]
        /\ arg.k = 0
====
